---- MODULE Spec2Model ----
(***************************************************************************)
(* Model of storm's host store: the Storm class (storm/__init__.py) on top *)
(* of the ssh config parser (storm/parsers/ssh_config_parser.py).          *)
(*                                                                         *)
(* Strings are tuples of one-character strings, so that quoting, regular   *)
(* expression matching, substring search and key lowercasing are computed  *)
(* character by character.                                                 *)
(***************************************************************************)
EXTENDS Integers, Sequences, FiniteSets, TLC

VARIABLES config_data, file, defaults, last

vars == <<config_data, file, defaults, last>>

(***************************************************************************)
(* Bounds                                                                  *)
(***************************************************************************)
\* add_entry and clone_entry add no record once a record has this index
MaxIndex == 3

\* add_entry and clone_entry leave no sequence longer than this
MaxRecords == 2

\* the config texts that are loaded and written back have up to this many
\* lines
MaxLines == 4

\* a session of the command line has up to this many commands
MaxCommands == 2

(***************************************************************************)
(* Characters and strings                                                  *)
(***************************************************************************)
\* the characters in use, in ASCII order
Alphabet ==
    << " ", "\"", "#", "'", "*", ",", "-", ".", "/", "0", "1", "2", "3",
       "4", "5", "6", "7", "8", "9", ":", "=", ">", "@", "A", "B", "C", "D",
       "E", "F", "G", "H", "I", "J", "K", "L", "M", "N", "O", "P", "Q", "R",
       "S", "T", "U", "V", "W", "X", "Y", "Z", "[", "]", "_", "a", "b", "c",
       "d", "e", "f", "g", "h", "i", "j", "k", "l", "m", "n", "o", "p", "q",
       "r", "s", "t", "u", "v", "w", "x", "y", "z" >>

Ord(c) == CHOOSE i \in 1..Len(Alphabet) : Alphabet[i] = c

\* str.lower() on one character: "A".."Z" to "a".."z"
LowerChar(c) ==
    IF Ord(c) >= Ord("A") /\ Ord(c) <= Ord("Z")
    THEN Alphabet[Ord(c) - Ord("A") + Ord("a")]
    ELSE c

\* str.lower()
Lower(s) == [i \in 1..Len(s) |-> LowerChar(s[i])]

Range(s) == {s[i] : i \in 1..Len(s)}

\* s[i:] of Python, with i counted from 1
From(s, i) == SubSeq(s, i, Len(s))

\* `sub in s` of Python strings
Contains(s, sub) ==
    \E i \in 1..(Len(s) - Len(sub) + 1) : SubSeq(s, i, i + Len(sub) - 1) = sub

\* every substring of s, the empty one included
Substrings(s) ==
    {<<>>} \cup {SubSeq(s, i, j) : i \in 1..Len(s), j \in 1..Len(s)}

\* s < t in Python's string order
RECURSIVE StrLess(_, _)
StrLess(s, t) ==
    IF t = <<>> THEN FALSE
    ELSE IF s = <<>> THEN TRUE
    ELSE IF s[1] # t[1] THEN Ord(s[1]) < Ord(t[1])
    ELSE StrLess(Tail(s), Tail(t))

\* index of the first occurrence of character c in s, 0 when absent
FirstIndex(s, c) ==
    IF c \in Range(s)
    THEN CHOOSE i \in 1..Len(s) : s[i] = c /\ \A j \in 1..(i - 1) : s[j] # c
    ELSE 0

\* str.strip(chars) with a single character
RECURSIVE LStrip(_, _)
LStrip(s, c) == IF s # <<>> /\ s[1] = c THEN LStrip(Tail(s), c) ELSE s

RECURSIVE RStrip(_, _)
RStrip(s, c) ==
    IF s # <<>> /\ s[Len(s)] = c THEN RStrip(SubSeq(s, 1, Len(s) - 1), c)
    ELSE s

Strip(s, c) == RStrip(LStrip(s, c), c)

Quote == "\""

(***************************************************************************)
(* Option values and insertion-ordered mappings (Python dict)              *)
(*   a value is a string or a list of strings                              *)
(*   a dict is a sequence of <<key, value>> with pairwise distinct keys    *)
(***************************************************************************)
Scalar(s) == [list |-> FALSE, v |-> <<s>>]
List(ss) == [list |-> TRUE, v |-> ss]

DictKeys(d) == {d[i][1] : i \in 1..Len(d)}

DictHas(d, k) == k \in DictKeys(d)

DictGet(d, k) == d[CHOOSE i \in 1..Len(d) : d[i][1] = k][2]

\* d.get(k, dflt)
DictGetOr(d, k, dflt) == IF DictHas(d, k) THEN DictGet(d, k) ELSE dflt

\* d[k] = v : an existing key keeps its place, a new key goes last
DictSet(d, k, v) ==
    IF DictHas(d, k)
    THEN [i \in 1..Len(d) |-> IF d[i][1] = k THEN <<k, v>> ELSE d[i]]
    ELSE Append(d, <<k, v>>)

\* removal of a key, absent keys ignored
DictDel(d, k) == SelectSeq(d, LAMBDA kv : kv[1] # k)

\* d.update(o)
RECURSIVE DictUpdate(_, _)
DictUpdate(d, o) ==
    IF o = <<>> THEN d
    ELSE DictUpdate(DictSet(d, o[1][1], o[1][2]), Tail(o))

\* str() of a value, as an f-string renders it
RECURSIVE JoinRepr(_)
JoinRepr(ss) ==
    IF ss = <<>> THEN <<>>
    ELSE <<"'">> \o ss[1] \o <<"'">>
         \o (IF Len(ss) > 1 THEN <<",", " ">> ELSE <<>>) \o JoinRepr(Tail(ss))

PyStr(val) ==
    IF val.list THEN <<"[">> \o JoinRepr(val.v) \o <<"]">> ELSE val.v[1]

(***************************************************************************)
(* Regular expressions: the part of Python's re syntax the patterns use    *)
(* (literals, '.', '[...]' sets with ranges, '*'), compiled to a sequence  *)
(* of elements [set, star]                                                 *)
(***************************************************************************)
ReFail == [ok |-> FALSE, elems |-> <<>>]

\* the members of a '[...]' set, or a failure on a reversed range
RECURSIVE ClassSet(_)
ClassSet(inner) ==
    IF inner = <<>> THEN [ok |-> TRUE, set |-> {}]
    ELSE IF Len(inner) >= 3 /\ inner[2] = "-"
    THEN LET rest == ClassSet(From(inner, 4))
         IN  IF Ord(inner[1]) > Ord(inner[3]) \/ ~rest.ok
             THEN [ok |-> FALSE, set |-> {}]
             ELSE [ok |-> TRUE,
                   set |-> {Alphabet[k] : k \in Ord(inner[1])..Ord(inner[3])}
                           \cup rest.set]
    ELSE LET rest == ClassSet(Tail(inner))
         IN  [ok |-> rest.ok, set |-> {inner[1]} \cup rest.set]

\* re.compile: the elements of p from position i on, appended to acc
RECURSIVE ReParse(_, _, _)
ReParse(p, i, acc) ==
    IF i > Len(p) THEN [ok |-> TRUE, elems |-> acc]
    ELSE IF p[i] = "*"
    THEN IF acc = <<>> \/ acc[Len(acc)].star
         THEN ReFail  \* nothing to repeat, multiple repeat
         ELSE ReParse(p, i + 1,
                      [acc EXCEPT ![Len(acc)] = [@ EXCEPT !.star = TRUE]])
    ELSE IF p[i] = "["
    THEN LET closes == {j \in (i + 2)..Len(p) : p[j] = "]"}
         IN  IF closes = {} THEN ReFail  \* unterminated character set
             ELSE LET j == CHOOSE c \in closes : \A d \in closes : c <= d
                      cls == ClassSet(SubSeq(p, i + 1, j - 1))
                  IN  IF ~cls.ok THEN ReFail  \* bad character range
                      ELSE ReParse(p, j + 1,
                               Append(acc, [set |-> cls.set, star |-> FALSE]))
    ELSE IF p[i] = "."
    THEN ReParse(p, i + 1, Append(acc, [set |-> Range(Alphabet), star |-> FALSE]))
    ELSE ReParse(p, i + 1, Append(acc, [set |-> {p[i]}, star |-> FALSE]))

ReCompile(p) == ReParse(p, 1, <<>>)

\* whether elements k.. match s from position i on
RECURSIVE ReMatchAt(_, _, _, _)
ReMatchAt(elems, k, s, i) ==
    IF k > Len(elems) THEN TRUE
    ELSE LET hit == i <= Len(s) /\ s[i] \in elems[k].set
         IN  IF elems[k].star
             THEN ReMatchAt(elems, k + 1, s, i)
                  \/ (hit /\ ReMatchAt(elems, k, s, i + 1))
             ELSE hit /\ ReMatchAt(elems, k + 1, s, i + 1)

\* truth of re.match(p, s) for a pattern that compiles: a match that starts
\* at position 0 of s and may end anywhere
ReMatch(p, s) == ReMatchAt(ReCompile(p).elems, 1, s, 1)

(***************************************************************************)
(* Config model: storm/parsers/ssh_config_parser.py (ConfigParser)         *)
(*   a record is [type, host, options, value, index]; the type is "entry", *)
(*   "comment" or "empty_line"; comments and blank lines carry the empty   *)
(*   host and no options; a file is a sequence of lines                    *)
(***************************************************************************)
NoHost == <<>>

HostEntry(host, options, index) ==
    [type |-> "entry", host |-> host, options |-> options, value |-> <<>>,
     index |-> index]

Comment(text, index) ==
    [type |-> "comment", host |-> NoHost, options |-> <<>>, value |-> text,
     index |-> index]

EmptyLine(index) ==
    [type |-> "empty_line", host |-> NoHost, options |-> <<>>,
     value |-> <<>>, index |-> index]

IsEntry(r) == r.type = "entry"

kHost == <<"H", "o", "s", "t">>
Indent == <<" ", " ", " ", " ">>

\* \w of a regular expression
IsWord(c) ==
    c \notin {" ", "\"", "#", "'", "*", ",", "-", ".", "/", ":", "=", ">",
              "@", "[", "]"}

\* ^\s*#
IsCommentLine(line) ==
    LET t == LStrip(line, " ") IN t # <<>> /\ t[1] = "#"

IsBlankLine(line) == LStrip(line, " ") = <<>>

\* ^\s*Host\b
IsHostLine(line) ==
    LET t == LStrip(line, " ")
    IN  /\ Len(t) >= 4
        /\ SubSeq(t, 1, 4) = kHost
        /\ (Len(t) = 4 \/ ~IsWord(t[5]))

HostOfLine(line) == Strip(From(LStrip(line, " "), 5), " ")

\* `key value`: the key ends at the first run of whitespace
IsOptionLine(line) == FirstIndex(LStrip(line, " "), " ") > 1

KeyOfLine(line) ==
    LET t == LStrip(line, " ")
    IN  Lower(SubSeq(t, 1, FirstIndex(t, " ") - 1))

ValueOfLine(line) ==
    LET t == LStrip(line, " ")
    IN  LStrip(From(t, FirstIndex(t, " ")), " ")

\* AddOption that keeps the latest value of a directive
AddOption_latest(options, k, v) == DictSet(options, k, Scalar(v))

\* a directive met again under the same entry: scalar to list, then append
AddOption(options, k, v) ==
    IF DictHas(options, k)
    THEN DictSet(options, k, List(Append(DictGet(options, k).v, v)))
    ELSE DictSet(options, k, Scalar(v))

\* load, line i on; cur is the position of the entry being filled, or 0
RECURSIVE LoadFrom(_, _, _, _)
LoadFrom(lines, i, recs, cur) ==
    IF i > Len(lines) THEN recs
    ELSE LET line == lines[i]
             n == Len(recs) + 1
         IN  IF IsCommentLine(line)
             THEN LoadFrom(lines, i + 1, Append(recs, Comment(line, n)), 0)
             ELSE IF IsBlankLine(line)
             THEN LoadFrom(lines, i + 1, Append(recs, EmptyLine(n)), 0)
             ELSE IF IsHostLine(line)
             THEN LoadFrom(lines, i + 1,
                      Append(recs, HostEntry(HostOfLine(line), <<>>, n)), n)
             ELSE IF IsOptionLine(line) /\ cur # 0
             THEN LoadFrom(lines, i + 1,
                      [recs EXCEPT ![cur].options =
                          AddOption(@, KeyOfLine(line), ValueOfLine(line))],
                      cur)
             ELSE LoadFrom(lines, i + 1, recs, cur)

load(lines) == LoadFrom(lines, 1, <<>>, 0)

kStar == <<"*">>

\* the defaults view: the options of the `Host *` entries
RECURSIVE DefaultsOf(_)
DefaultsOf(recs) ==
    IF recs = <<>> THEN <<>>
    ELSE LET rest == DefaultsOf(SubSeq(recs, 1, Len(recs) - 1))
             r == recs[Len(recs)]
         IN  IF IsEntry(r) /\ r.host = kStar
             THEN DictUpdate(rest, r.options) ELSE rest

\* the values of a list on one line, with commas between them
RECURSIVE JoinComma(_)
JoinComma(ss) ==
    IF ss = <<>> THEN <<>>
    ELSE ss[1] \o (IF Len(ss) > 1 THEN <<",">> ELSE <<>>) \o JoinComma(Tail(ss))

\* the lines of the options with each list on one line
RECURSIVE OptionLines_joined(_)
OptionLines_joined(options) ==
    IF options = <<>> THEN <<>>
    ELSE LET k == options[1][1]
             val == options[1][2]
         IN  << Indent \o k \o <<" ">> \o JoinComma(val.v) >>
             \o OptionLines_joined(Tail(options))

RECURSIVE OptionLines(_)
OptionLines(options) ==
    IF options = <<>> THEN <<>>
    ELSE LET k == options[1][1]
             val == options[1][2]
         IN  [j \in 1..Len(val.v) |-> Indent \o k \o <<" ">> \o val.v[j]]
             \o OptionLines(Tail(options))

\* RecordLines that renders a list as one line
RecordLines_joined(r) ==
    IF r.type = "comment" THEN <<r.value>>
    ELSE IF r.type = "empty_line" THEN << <<>> >>
    ELSE << kHost \o <<" ">> \o r.host >> \o OptionLines_joined(r.options)

RecordLines(r) ==
    IF r.type = "comment" THEN <<r.value>>
    ELSE IF r.type = "empty_line" THEN << <<>> >>
    ELSE << kHost \o <<" ">> \o r.host >> \o OptionLines(r.options)

RECURSIVE DumpLines(_)
DumpLines(recs) ==
    IF recs = <<>> THEN <<>>
    ELSE RecordLines(recs[1]) \o DumpLines(Tail(recs))

\* dump: absent for the empty sequence, else the text
dump(recs) ==
    IF Len(recs) < 1 THEN [absent |-> TRUE, lines |-> <<>>]
    ELSE [absent |-> FALSE, lines |-> DumpLines(recs)]

\* write_to_ssh_config: the content of the file afterwards
write_to_ssh_config(recs, f) ==
    LET data == dump(recs) IN IF data.absent THEN f ELSE data.lines

RECURSIVE LastIndexOf(_)
LastIndexOf(recs) ==
    IF recs = <<>> THEN 0
    ELSE LET m == LastIndexOf(Tail(recs))
         IN  IF recs[1].index > m THEN recs[1].index ELSE m

get_last_index(recs) == LastIndexOf(recs)

add_host(recs, host, options) ==
    Append(recs, HostEntry(host, options, get_last_index(recs) + 1))

kDeletedFields ==
    <<"d", "e", "l", "e", "t", "e", "d", "_", "f", "i", "e", "l", "d", "s">>

\* the directive names a delete marker lists
DeletedNames(val) ==
    IF val.list THEN val.v ELSE [i \in 1..Len(val.v[1]) |-> <<val.v[1][i]>>]

RECURSIVE DelAll(_, _)
DelAll(d, names) ==
    IF names = <<>> THEN d ELSE DelAll(DictDel(d, names[1]), Tail(names))

\* merge of an options mapping into an entry's options, key by key
RECURSIVE Merge(_, _)
Merge(target, options) ==
    IF options = <<>> THEN target
    ELSE LET k == options[1][1]
             val == options[1][2]
         IN  IF k = kDeletedFields
             THEN Merge(DelAll(target, DeletedNames(val)), Tail(options))
             ELSE Merge(DictSet(target, k, val), Tail(options))

\* positions of the entries whose host equals name
ExactAt(recs, name) ==
    {i \in 1..Len(recs) : IsEntry(recs[i]) /\ recs[i].host = name}

\* positions of the entries whose host the pattern matches from its start
MatchAt(recs, pattern) ==
    {i \in 1..Len(recs) : IsEntry(recs[i]) /\ ReMatch(pattern, recs[i].host)}

Min(S) == CHOOSE x \in S : \A y \in S : x <= y

update_host(recs, name, options, use_regex) ==
    IF use_regex /\ ~ReCompile(name).ok
    THEN [err |-> "InvalidPattern", data |-> recs]
    ELSE LET at == IF use_regex THEN MatchAt(recs, name)
                   ELSE IF ExactAt(recs, name) = {} THEN {}
                   ELSE {Min(ExactAt(recs, name))}
         IN  IF at = {} THEN [err |-> "HostNotFound", data |-> recs]
             ELSE [err |-> "none",
                   data |-> [i \in 1..Len(recs) |->
                               IF i \in at
                               THEN [recs[i] EXCEPT
                                       !.options = Merge(@, options)]
                               ELSE recs[i]]]

delete_host(recs, name) ==
    IF ExactAt(recs, name) = {} THEN [err |-> "HostNotFound", data |-> recs]
    ELSE LET at == Min(ExactAt(recs, name))
         IN  [err |-> "none",
              data |-> SubSeq(recs, 1, at - 1) \o SubSeq(recs, at + 1, Len(recs))]

delete_all_hosts(recs) == <<>>

\* ConfigParser.search_host: the entries whose host contains the string
parser_search_host(recs, search_string) ==
    SelectSeq(recs, LAMBDA r : IsEntry(r) /\ Contains(r.host, search_string))

(***************************************************************************)
(* Storm: storm/__init__.py                                                *)
(***************************************************************************)
DELETED_SIGN == <<"D", "E", "L", "E", "T", "E", "D">>

kHostname == <<"h", "o", "s", "t", "n", "a", "m", "e">>
kUser == <<"u", "s", "e", "r">>
kPort == <<"p", "o", "r", "t">>
kIdentityfile ==
    <<"i", "d", "e", "n", "t", "i", "t", "y", "f", "i", "l", "e">>

\* getpass.getuser() and the default port of storm/defaults.py
DEFAULT_USER == <<"m", "e">>
DEFAULT_PORT == <<"2", "2">>

get_default(key, dflts) ==
    IF key = kPort THEN DictGetOr(dflts, kPort, Scalar(DEFAULT_PORT))
    ELSE DictGetOr(dflts, kUser, Scalar(DEFAULT_USER))

\* the loop of is_host_in from record i on: the position of the first record
\* that ends the loop (0 when none does), or the error of re.match
RECURSIVE IsHostInFrom(_, _, _, _)
IsHostInFrom(recs, i, host, regexp_match) ==
    IF i > Len(recs) THEN [raised |-> FALSE, at |-> 0]
    ELSE IF recs[i].host = host THEN [raised |-> FALSE, at |-> i]
    ELSE IF ~regexp_match THEN IsHostInFrom(recs, i + 1, host, regexp_match)
    ELSE IF ~ReCompile(host).ok THEN [raised |-> TRUE, at |-> 0]
    ELSE IF ReMatch(host, recs[i].host) THEN [raised |-> FALSE, at |-> i]
    ELSE IsHostInFrom(recs, i + 1, host, regexp_match)

\* is_host_in with `host in host_.get("host")` for the equality test
is_host_in_substring(recs, host, regexp_match) ==
    LET at == {i \in 1..Len(recs) : Contains(recs[i].host, host)}
    IN  IF at = {} THEN IsHostInFrom(recs, 1, host, regexp_match)
        ELSE [raised |-> FALSE, at |-> Min(at)]

\* is_host_in that ignores its regexp_match flag
is_host_in_always_regexp(recs, host, regexp_match) ==
    IsHostInFrom(recs, 1, host, TRUE)

is_host_in(recs, host, regexp_match) ==
    IsHostInFrom(recs, 1, host, regexp_match)

\* _quote_options without the strip of the quotes already there
_quote_options_nostrip(options) ==
    IF DictHas(options, kIdentityfile)
    THEN DictSet(options, kIdentityfile,
             Scalar(<<Quote>> \o DictGet(options, kIdentityfile).v[1]
                    \o <<Quote>>))
    ELSE options

_quote_options(options) ==
    IF DictHas(options, kIdentityfile)
    THEN DictSet(options, kIdentityfile,
             Scalar(<<Quote>>
                    \o Strip(DictGet(options, kIdentityfile).v[1], Quote)
                    \o <<Quote>>))
    ELSE options

\* the custom options of the form key=value, set in order
RECURSIVE SetCustom(_, _)
SetCustom(options, custom_options) ==
    IF custom_options = <<>> THEN options
    ELSE LET o == custom_options[1]
             eq == FirstIndex(o, "=")
         IN  IF eq # 0
             THEN SetCustom(DictSet(options, Lower(SubSeq(o, 1, eq - 1)),
                                    Scalar(From(o, eq + 1))),
                            Tail(custom_options))
             ELSE SetCustom(options, Tail(custom_options))

\* get_options without the branch of the DELETED sentinel
get_options_no_sentinel(host, user, port, id_file, custom_options) ==
    LET base == << <<kHostname, Scalar(host)>>, <<kUser, Scalar(user)>>,
                   <<kPort, Scalar(port)>> >>
        withId == IF id_file # <<>>
                  THEN DictSet(base, kIdentityfile, Scalar(id_file))
                  ELSE base
    IN  _quote_options(SetCustom(withId, custom_options))

get_options(host, user, port, id_file, custom_options) ==
    LET base == << <<kHostname, Scalar(host)>>, <<kUser, Scalar(user)>>,
                   <<kPort, Scalar(port)>> >>
        withId == IF id_file = DELETED_SIGN
                  THEN DictSet(base, kDeletedFields, List(<<kIdentityfile>>))
                  ELSE IF id_file # <<>>
                  THEN DictSet(base, kIdentityfile, Scalar(id_file))
                  ELSE base
    IN  _quote_options(SetCustom(withId, custom_options))

Outcome(outcome, data, f) == [outcome |-> outcome, data |-> data, file |-> f]

\* add_entry that numbers the new entry by its position
add_entry_counted(recs, f, name, host, user, port, id_file, custom_options) ==
    IF is_host_in(recs, name, FALSE).at # 0
    THEN Outcome("HostAlreadyExists", recs, f)
    ELSE LET options == get_options(host, user, port, id_file, custom_options)
             data == Append(recs, HostEntry(name, options, Len(recs) + 1))
         IN  Outcome("ok", data, write_to_ssh_config(data, f))

add_entry(recs, f, name, host, user, port, id_file, custom_options) ==
    IF is_host_in(recs, name, FALSE).at # 0
    THEN Outcome("HostAlreadyExists", recs, f)
    ELSE LET options == get_options(host, user, port, id_file, custom_options)
             data == add_host(recs, name, options)
         IN  Outcome("ok", data, write_to_ssh_config(data, f))

\* clone_entry without the test that the clone name is free
clone_entry_unchecked(recs, f, name, clone_name, keep_original) ==
    LET at == is_host_in(recs, name, FALSE).at
    IN  IF at = 0 THEN Outcome("HostNotFound", recs, f)
        ELSE LET added == add_host(recs, clone_name, recs[at].options)
                 del == delete_host(added, name)
             IN  IF keep_original
                 THEN Outcome("ok", added, write_to_ssh_config(added, f))
                 ELSE IF del.err # "none" THEN Outcome(del.err, added, f)
                 ELSE Outcome("ok", del.data,
                              write_to_ssh_config(del.data, f))

\* clone_entry that hands add_host an empty options mapping
clone_entry_bare(recs, f, name, clone_name, keep_original) ==
    LET at == is_host_in(recs, name, FALSE).at
    IN  IF at = 0 THEN Outcome("HostNotFound", recs, f)
        ELSE IF name = clone_name \/ is_host_in(recs, clone_name, FALSE).at # 0
        THEN Outcome("HostAlreadyExists", recs, f)
        ELSE LET added == add_host(recs, clone_name, <<>>)
                 del == delete_host(added, name)
             IN  IF keep_original
                 THEN Outcome("ok", added, write_to_ssh_config(added, f))
                 ELSE IF del.err # "none" THEN Outcome(del.err, added, f)
                 ELSE Outcome("ok", del.data,
                              write_to_ssh_config(del.data, f))

\* clone_entry that returns without raising when the clone name is taken
clone_entry_silent(recs, f, name, clone_name, keep_original) ==
    LET at == is_host_in(recs, name, FALSE).at
    IN  IF at = 0 THEN Outcome("HostNotFound", recs, f)
        ELSE IF name = clone_name \/ is_host_in(recs, clone_name, FALSE).at # 0
        THEN Outcome("ok", recs, f)
        ELSE LET added == add_host(recs, clone_name, recs[at].options)
                 del == delete_host(added, name)
             IN  IF keep_original
                 THEN Outcome("ok", added, write_to_ssh_config(added, f))
                 ELSE IF del.err # "none" THEN Outcome(del.err, added, f)
                 ELSE Outcome("ok", del.data,
                              write_to_ssh_config(del.data, f))

\* clone_entry that keeps the original whatever keep_original says
clone_entry_keeps(recs, f, name, clone_name, keep_original) ==
    LET at == is_host_in(recs, name, FALSE).at
    IN  IF at = 0 THEN Outcome("HostNotFound", recs, f)
        ELSE IF name = clone_name \/ is_host_in(recs, clone_name, FALSE).at # 0
        THEN Outcome("HostAlreadyExists", recs, f)
        ELSE LET added == add_host(recs, clone_name, recs[at].options)
             IN  Outcome("ok", added, write_to_ssh_config(added, f))

clone_entry(recs, f, name, clone_name, keep_original) ==
    LET at == is_host_in(recs, name, FALSE).at
    IN  IF at = 0 THEN Outcome("HostNotFound", recs, f)
        ELSE IF name = clone_name \/ is_host_in(recs, clone_name, FALSE).at # 0
        THEN Outcome("HostAlreadyExists", recs, f)
        ELSE LET added == add_host(recs, clone_name, recs[at].options)
                 del == delete_host(added, name)
             IN  IF keep_original
                 THEN Outcome("ok", added, write_to_ssh_config(added, f))
                 ELSE IF del.err # "none" THEN Outcome(del.err, added, f)
                 ELSE Outcome("ok", del.data,
                              write_to_ssh_config(del.data, f))

\* edit_entry as a delete of the entry followed by an add of a new one
edit_entry_readd(recs, f, name, host, user, port, id_file, custom_options) ==
    IF is_host_in(recs, name, FALSE).at = 0
    THEN Outcome("HostNotFound", recs, f)
    ELSE LET options == get_options(host, user, port, id_file, custom_options)
             del == delete_host(recs, name)
             data == add_host(del.data, name, options)
         IN  IF del.err # "none" THEN Outcome(del.err, recs, f)
             ELSE Outcome("ok", data, write_to_ssh_config(data, f))

\* edit_entry that takes the name for a pattern
edit_entry_regex(recs, f, name, host, user, port, id_file, custom_options) ==
    IF is_host_in(recs, name, TRUE).at = 0
    THEN Outcome("HostNotFound", recs, f)
    ELSE LET options == get_options(host, user, port, id_file, custom_options)
             upd == update_host(recs, name, options, TRUE)
         IN  IF upd.err # "none" THEN Outcome(upd.err, recs, f)
             ELSE Outcome("ok", upd.data, write_to_ssh_config(upd.data, f))

edit_entry(recs, f, name, host, user, port, id_file, custom_options) ==
    IF is_host_in(recs, name, FALSE).at = 0
    THEN Outcome("HostNotFound", recs, f)
    ELSE LET options == get_options(host, user, port, id_file, custom_options)
             upd == update_host(recs, name, options, FALSE)
         IN  IF upd.err # "none" THEN Outcome(upd.err, recs, f)
             ELSE Outcome("ok", upd.data, write_to_ssh_config(upd.data, f))

\* update_entry that hands the name to update_host as an exact name
update_entry_exact(recs, f, name, kwargs) ==
    LET found == is_host_in(recs, name, TRUE)
        upd == update_host(recs, name, kwargs, FALSE)
    IN  IF found.raised THEN Outcome("InvalidPattern", recs, f)
        ELSE IF found.at = 0 THEN Outcome("HostNotFound", recs, f)
        ELSE IF upd.err # "none" THEN Outcome(upd.err, recs, f)
        ELSE Outcome("ok", upd.data, write_to_ssh_config(upd.data, f))

\* update_entry that quotes its options as edit_entry does
update_entry_quoted(recs, f, name, kwargs) ==
    LET found == is_host_in(recs, name, TRUE)
        upd == update_host(recs, name, _quote_options(kwargs), TRUE)
    IN  IF found.raised THEN Outcome("InvalidPattern", recs, f)
        ELSE IF found.at = 0 THEN Outcome("HostNotFound", recs, f)
        ELSE IF upd.err # "none" THEN Outcome(upd.err, recs, f)
        ELSE Outcome("ok", upd.data, write_to_ssh_config(upd.data, f))

update_entry(recs, f, name, kwargs) ==
    LET found == is_host_in(recs, name, TRUE)
        upd == update_host(recs, name, kwargs, TRUE)
    IN  IF found.raised THEN Outcome("InvalidPattern", recs, f)
        ELSE IF found.at = 0 THEN Outcome("HostNotFound", recs, f)
        ELSE IF upd.err # "none" THEN Outcome(upd.err, recs, f)
        ELSE Outcome("ok", upd.data, write_to_ssh_config(upd.data, f))

\* delete_entry that removes every entry of the name
delete_entry_every(recs, f, name) ==
    LET del == delete_host(recs, name)
        data == SelectSeq(recs, LAMBDA r : ~(IsEntry(r) /\ r.host = name))
    IN  IF del.err # "none" THEN Outcome(del.err, recs, f)
        ELSE Outcome("ok", data, write_to_ssh_config(data, f))

\* delete_entry that opens the file for writing before it asks for the text
delete_entry_truncates(recs, f, name) ==
    LET del == delete_host(recs, name)
    IN  IF del.err # "none" THEN Outcome(del.err, recs, f)
        ELSE Outcome("ok", del.data, DumpLines(del.data))

delete_entry(recs, f, name) ==
    LET del == delete_host(recs, name)
    IN  IF del.err # "none" THEN Outcome(del.err, recs, f)
        ELSE Outcome("ok", del.data, write_to_ssh_config(del.data, f))

\* sorted(..., key=itemgetter("host")): r goes behind the records whose host
\* is not greater than its own
RECURSIVE InsertByHost(_, _)
InsertByHost(sorted, r) ==
    IF sorted = <<>> THEN <<r>>
    ELSE IF StrLess(r.host, sorted[1].host) THEN <<r>> \o sorted
    ELSE <<sorted[1]>> \o InsertByHost(Tail(sorted), r)

RECURSIVE SortedByHost(_)
SortedByHost(recs) ==
    IF recs = <<>> THEN <<>>
    ELSE InsertByHost(SortedByHost(SubSeq(recs, 1, Len(recs) - 1)),
                      recs[Len(recs)])

\* the filter of list_entries for only_servers
OnlyServers(recs) ==
    SelectSeq(recs, LAMBDA entry : entry.type = "entry" /\ entry.host # <<"*">>)

\* list_entries that sorts the sequence of the parser itself
list_entries_sort_in_place(recs, order, only_servers) ==
    LET filtered == IF only_servers THEN OnlyServers(recs) ELSE recs
    IN  [data |-> IF order THEN SortedByHost(recs) ELSE recs,
         result |-> IF order THEN SortedByHost(filtered) ELSE filtered]

\* list_entries whose filter keeps the `Host *` block
list_entries_with_star(recs, order, only_servers) ==
    LET filtered == IF only_servers
                    THEN SelectSeq(recs, LAMBDA entry : entry.type = "entry")
                    ELSE recs
    IN  [data |-> recs,
         result |-> IF order THEN SortedByHost(filtered) ELSE filtered]

\* list_entries that sorts only when the filter is on
list_entries_sort_servers(recs, order, only_servers) ==
    LET filtered == IF only_servers THEN OnlyServers(recs) ELSE recs
    IN  [data |-> recs,
         result |-> IF order /\ only_servers THEN SortedByHost(filtered)
                    ELSE filtered]

\* list_entries: the sequence after the call, and what the call returns
list_entries(recs, order, only_servers) ==
    LET filtered == IF only_servers THEN OnlyServers(recs) ELSE recs
    IN  [data |-> recs,
         result |-> IF order THEN SortedByHost(filtered) ELSE filtered]

\* delete_all_entries that removes the HostEntry records only
delete_all_entries_hosts_only(recs, f) ==
    Outcome("ok", SelectSeq(recs, LAMBDA r : ~IsEntry(r)), f)

delete_all_entries(recs, f) == Outcome("ok", delete_all_hosts(recs), f)

Arrow == <<" ", "-", ">", " ">>

HostnameNotSpecified ==
    <<"[", "h", "o", "s", "t", "n", "a", "m", "e", "_", "n", "o", "t", "_",
      "s", "p", "e", "c", "i", "f", "i", "e", "d", "]">>

\* one line of Storm.search_host
FormatResult(r, dflts) ==
    Indent \o r.host \o Arrow
    \o PyStr(DictGetOr(r.options, kUser, get_default(kUser, dflts)))
    \o <<"@">>
    \o PyStr(DictGetOr(r.options, kHostname, Scalar(HostnameNotSpecified)))
    \o <<":">>
    \o PyStr(DictGetOr(r.options, kPort, get_default(kPort, dflts)))
    \o <<"\n">>

\* search_host whose loop stops one result early
search_host_short(recs, dflts, search_string) ==
    LET results == parser_search_host(recs, search_string)
    IN  [i \in 1..(Len(results) - 1) |-> FormatResult(results[i], dflts)]

\* search_host that keeps the hosts that begin with the string
search_host_anchored(recs, dflts, search_string) ==
    LET results == SelectSeq(parser_search_host(recs, search_string),
                       LAMBDA r : SubSeq(r.host, 1, Len(search_string))
                                      = search_string)
    IN  [i \in 1..Len(results) |-> FormatResult(results[i], dflts)]

search_host(recs, dflts, search_string) ==
    LET results == parser_search_host(recs, search_string)
    IN  [i \in 1..Len(results) |-> FormatResult(results[i], dflts)]

(***************************************************************************)
(* Inputs                                                                  *)
(***************************************************************************)
goog == <<"g", "o", "o", "g">>
google == goog \o <<"l", "e">>
worker == <<"w", "o", "r", "k", "e", "r">>
worker1 == worker \o <<"-", "1">>
worker2 == worker \o <<"-", "2">>
worker4 == worker \o <<"-", "4">>
worker3 == worker \o <<"3">>
\* a host that is not a regular expression
gBracket == <<"g", "[">>

\* names given to add_entry and as the target of clone_entry
NewNames == {goog, google}

\* names given to edit_entry, delete_entry and as the source of clone_entry
Names == {goog, worker1}

keyPath == <<"/", "k">>

quotedPath == <<Quote>> \o keyPath \o <<Quote>>

IdFiles ==
    { <<>>, DELETED_SIGN, keyPath, quotedPath,
      <<Quote>> \o quotedPath \o <<Quote>> }

\* --o options of the command line
otherPath == <<"/", "c">>

\* Sk=no, and an option without '='
customSk == << <<"S", "k", "=", "n", "o">>, <<"n", "o", "e", "q">> >>

\* IdentityFile=/c
customId ==
    << <<"I", "d", "e", "n", "t", "i", "t", "y", "F", "i", "l", "e", "=">>
       \o otherPath >>

CustomOptions == {<<>>, customSk, customId}

pWorker == worker \o <<"-", "[", "1", "-", "5", "]">>
pNone == <<"z", ".", "*">>

Patterns == {pWorker, goog, gBracket, pNone}

\* the keyword arguments of update_entry
Kwargs ==
    { << <<kPort, Scalar(<<"2", "4">>)>>, <<kIdentityfile, Scalar(keyPath)>> >> }

\* with a string in another case and one that is a pattern
SearchStrings ==
    {<<>>, <<"o", "o">>, google, <<"r", "-">>, <<"O", "O">>, <<"g", ".">>}

hostA == <<"a", ".", "c">>
userA == <<"u">>
port22 == <<"2", "2">>
port23 == <<"2", "3">>

HostLine(h) == kHost \o <<" ">> \o h
OptLine(k, v) == Indent \o k \o <<" ">> \o v

WorkerBlock(h) == << HostLine(h), OptLine(kPort, port22) >>

FileEmpty == <<>>

FileComments == << <<"#", " ", "c">>, <<>> >>

\* the shape of the test fixture SIMPLE_SSH_CONFIG, with a repeated directive
FileSimple ==
    << HostLine(kStar),
       OptLine(<<"U", "s", "e", "r">>, <<"n">>),
       <<>>,
       HostLine(goog),
       OptLine(<<"H", "o", "s", "t", "N", "a", "m", "e">>, <<"1", ".", "1">>),
       OptLine(<<"I", "d", "e", "n", "t", "i", "t", "y", "F", "i", "l", "e">>,
               <<"/", "a">>),
       OptLine(<<"I", "d", "e", "n", "t", "i", "t", "y", "F", "i", "l", "e">>,
               <<"/", "b">>) >>

FileWorkers ==
    WorkerBlock(worker1) \o WorkerBlock(worker2) \o WorkerBlock(worker4)
    \o WorkerBlock(worker3) \o WorkerBlock(worker)

FileBracket == WorkerBlock(gBracket)

FileBracketLast == << <<"#", " ", "c">> >> \o WorkerBlock(gBracket)

\* a file with the same Host block twice
FileDuplicate ==
    << HostLine(google), OptLine(kPort, port22),
       HostLine(google), OptLine(kPort, port23) >>

\* a file with two blocks of the host that is edited, deleted and cloned
FileTwins ==
    << HostLine(goog), OptLine(kPort, port22),
       HostLine(goog), OptLine(kPort, port23) >>

UniqueFiles ==
    {FileEmpty, FileComments, FileSimple, FileWorkers, FileBracket,
     FileBracketLast}

InitialFiles == UniqueFiles \cup {FileDuplicate, FileTwins}

(***************************************************************************)
(* The state machine                                                       *)
(*   last is the latest operation: its name, its arguments, its outcome,   *)
(*   what it returned, and the sequence and the file before it             *)
(***************************************************************************)
NoCall ==
    [op |-> "none", name |-> <<>>, clone_name |-> <<>>, keep |-> TRUE,
     port |-> <<>>, id_file |-> <<>>, custom |-> <<>>, kwargs |-> <<>>,
     order |-> FALSE, only_servers |-> FALSE,
     outcome |-> "ok", result |-> <<>>, listed |-> <<>>,
     pre |-> <<>>, prefile |-> <<>>, rc |-> 0, stderr |-> FALSE, n |-> 0]

Call(op, res) ==
    [NoCall EXCEPT !.op = op, !.outcome = res.outcome, !.pre = config_data,
                   !.prefile = file]

Apply(res) ==
    /\ config_data' = res.data
    /\ file' = res.file
    /\ UNCHANGED defaults

InitFrom(files) ==
    \E f \in files :
        /\ file = f
        /\ config_data = load(f)
        /\ defaults = DefaultsOf(load(f))
        /\ last = NoCall

Init == InitFrom(InitialFiles)

InitUnique == InitFrom(UniqueFiles)

AddEntry ==
    /\ last.op = "none"
    /\ \E name \in NewNames, id_file \in IdFiles, custom \in {<<>>} :
        LET res == add_entry(config_data, file, name, hostA, userA, port22,
                             id_file, custom)
        IN  /\ \/ res.outcome # "ok"
               \/ /\ get_last_index(config_data) < MaxIndex
                  /\ Len(res.data) <= MaxRecords
            /\ Apply(res)
            /\ last' = [Call("add_entry", res) EXCEPT
                          !.name = name, !.port = port22,
                          !.id_file = id_file, !.custom = custom]

CloneEntry ==
    /\ last.op = "none"
    /\ \E name \in Names, clone_name \in NewNames, keep \in BOOLEAN :
        LET res == clone_entry(config_data, file, name, clone_name, keep)
        IN  /\ \/ res.outcome # "ok"
               \/ /\ get_last_index(config_data) < MaxIndex
                  /\ Len(res.data) <= MaxRecords
            /\ Apply(res)
            /\ last' = [Call("clone_entry", res) EXCEPT
                          !.name = name, !.clone_name = clone_name,
                          !.keep = keep]

EditEntry ==
    /\ last.op = "none"
    /\ \E name \in Names, id_file \in IdFiles, custom \in CustomOptions :
        LET res == edit_entry(config_data, file, name, hostA, userA, port22,
                              id_file, custom)
        IN  /\ Apply(res)
            /\ last' = [Call("edit_entry", res) EXCEPT
                          !.name = name, !.port = port22,
                          !.id_file = id_file, !.custom = custom]

UpdateEntry ==
    /\ last.op = "none"
    /\ \E name \in Patterns, kwargs \in Kwargs :
        LET res == update_entry(config_data, file, name, kwargs)
        IN  /\ Apply(res)
            /\ last' = [Call("update_entry", res) EXCEPT
                          !.name = name, !.kwargs = kwargs]

DeleteEntry ==
    /\ last.op = "none"
    /\ \E name \in Names :
        LET res == delete_entry(config_data, file, name)
        IN  /\ Apply(res)
            /\ last' = [Call("delete_entry", res) EXCEPT !.name = name]

DeleteAllEntries ==
    /\ last.op = "none"
    /\ LET res == delete_all_entries(config_data, file)
       IN  /\ Apply(res)
           /\ last' = Call("delete_all_entries", res)

SearchHost ==
    /\ last.op = "none"
    /\ \E search_string \in SearchStrings :
        /\ UNCHANGED <<config_data, file, defaults>>
        /\ last' = [Call("search_host", Outcome("ok", config_data, file))
                      EXCEPT !.name = search_string,
                             !.result = search_host(config_data, defaults,
                                                    search_string)]

ListEntries ==
    /\ last.op = "none"
    /\ \E order \in BOOLEAN, only_servers \in BOOLEAN :
        LET res == list_entries(config_data, order, only_servers)
        IN  /\ config_data' = res.data
            /\ UNCHANGED <<file, defaults>>
            /\ last' = [Call("list_entries", Outcome("ok", res.data, file))
                          EXCEPT !.order = order,
                                 !.only_servers = only_servers,
                                 !.listed = res.result]

\* the call returns to its caller, which goes on to its next call
Return ==
    /\ last.op # "none"
    /\ last' = NoCall
    /\ UNCHANGED <<config_data, file, defaults>>

Next ==
    \/ Return
    \/ AddEntry
    \/ CloneEntry
    \/ EditEntry
    \/ UpdateEntry
    \/ DeleteEntry
    \/ DeleteAllEntries
    \/ SearchHost
    \/ ListEntries

Spec == Init /\ [][Next]_vars

\* the runs that start from a file whose Host blocks are pairwise distinct
SpecUnique == InitUnique /\ [][Next]_vars

(***************************************************************************)
(* The command line: storm/__main__.py.  Each command is a process of its  *)
(* own: it makes a Storm on the config file, which loads it, runs one      *)
(* operation and exits                                                     *)
(***************************************************************************)
\* get_storm_instance: a Storm on the config file, which loads it
get_storm_instance(f) == load(f)

\* parse of storm/parsers/ssh_uri_parser.py: [user@]host[:port], the user
\* and the port of the arguments where the string has none
parse(connection_uri, user, port) ==
    LET at == FirstIndex(connection_uri, "@")
        rest == IF at = 0 THEN connection_uri ELSE From(connection_uri, at + 1)
        colon == FirstIndex(rest, ":")
    IN  [user |-> IF at = 0 THEN user ELSE SubSeq(connection_uri, 1, at - 1),
         host |-> IF colon = 0 THEN rest ELSE SubSeq(rest, 1, colon - 1),
         port |-> IF colon = 0 THEN port ELSE From(rest, colon + 1)]

\* how the process ends: a ValueError is printed to stderr and the exit code
\* is 1, any other exception ends the process with a traceback on stderr
Exit(res) ==
    [outcome |-> res.outcome, data |-> res.data, file |-> res.file,
     rc |-> IF res.outcome = "ok" THEN 0 ELSE 1,
     stderr |-> res.outcome # "ok"]

\* the ValueError raised for a name with "@" in it
InvalidName(storm_, f) == Exit(Outcome("InvalidName", storm_, f))

\* the commands: storm_ is the sequence of get_storm_instance(config)
add(storm_, f, name, connection_uri, id_file, o) ==
    LET dflts == DefaultsOf(storm_)
        uri == parse(connection_uri, PyStr(get_default(kUser, dflts)),
                     PyStr(get_default(kPort, dflts)))
    IN  IF Contains(name, <<"@">>) THEN InvalidName(storm_, f)
        ELSE Exit(add_entry(storm_, f, name, uri.host, uri.user, uri.port,
                            id_file, o))

clone(storm_, f, name, clone_name) ==
    IF Contains(name, <<"@">>) THEN InvalidName(storm_, f)
    ELSE Exit(clone_entry(storm_, f, name, clone_name, TRUE))

move(storm_, f, name, entry_name) ==
    IF Contains(name, <<"@">>) THEN InvalidName(storm_, f)
    ELSE Exit(clone_entry(storm_, f, name, entry_name, FALSE))

\* " ".join(name.split(","))
SpacesForCommas(name) ==
    [i \in 1..Len(name) |-> IF name[i] = "," THEN " " ELSE name[i]]

edit(storm_, f, name, connection_uri, id_file, o) ==
    LET dflts == DefaultsOf(storm_)
        uri == parse(connection_uri, PyStr(get_default(kUser, dflts)),
                     PyStr(get_default(kPort, dflts)))
    IN  Exit(edit_entry(storm_, f, SpacesForCommas(name), uri.host,
                        uri.user, uri.port, id_file, o))

\* how many times character c stands in s
RECURSIVE CountChar(_, _)
CountChar(s, c) ==
    IF s = <<>> THEN 0
    ELSE (IF s[1] = c THEN 1 ELSE 0) + CountChar(Tail(s), c)

\* settings[k] = v for each option k=v, in order
RECURSIVE Settings(_, _)
Settings(settings, o) ==
    IF o = <<>> THEN settings
    ELSE LET eq == FirstIndex(o[1], "=")
         IN  Settings(DictSet(settings, SubSeq(o[1], 1, eq - 1),
                              Scalar(From(o[1], eq + 1))),
                      Tail(o))

\* `k, v = option.split("=")` stands outside the try: an option that does
\* not split in two ends the process before update_entry is called
update(storm_, f, name, id_file, o) ==
    LET settings == IF id_file # <<>>
                    THEN << <<kIdentityfile, Scalar(id_file)>> >>
                    ELSE <<>>
    IN  IF \E n \in 1..Len(o) : CountChar(o[n], "=") # 1
        THEN Exit(Outcome("ValueError", storm_, f))
        ELSE Exit(update_entry(storm_, f, name, Settings(settings, o)))

delete(storm_, f, name) == Exit(delete_entry(storm_, f, name))

\* a name with '@', and a name that is a pattern
gAt == <<"g", "@">>
gDot == <<"g", ".">>

\* user@host, the port left to the defaults
uriA == userA \o <<"@">> \o hostA

\* --o Sk=no
optSk == <<"S", "k", "=", "n", "o">>

\* the names of add, the names and the targets of clone and move, the names
\* of edit, update and delete
AddNames == {goog, gAt}
CloneNames == {goog, gAt}
CloneTargets == {google, gAt}
EditNames == {goog, gDot}

\* the --o options of add and edit
AddOptions == { <<>>, <<optSk>> }

\* the --o options of update: one that splits in two, and with it one that
\* does not
UpdateOptions == { <<optSk>>, customSk }

\* two blocks of a host whose name is a pattern that matches itself
FileDots ==
    << HostLine(gDot), OptLine(kPort, port22),
       HostLine(gDot), OptLine(kPort, port23) >>

CliFiles == {FileEmpty, FileTwins, FileDots}

InitCli ==
    \E f \in CliFiles :
        /\ file = f
        /\ config_data = load(f)
        /\ defaults = DefaultsOf(load(f))
        /\ last = NoCall

\* the state after a command: the sequence the process held when it ended
\* and the file it left; n counts the commands of the session
Command(call, storm_, res) ==
    /\ config_data' = res.data
    /\ file' = res.file
    /\ defaults' = DefaultsOf(storm_)
    /\ last' = [call EXCEPT !.outcome = res.outcome, !.pre = storm_,
                            !.prefile = file, !.rc = res.rc,
                            !.stderr = res.stderr, !.n = last.n + 1]

CliAdd ==
    /\ last.n < MaxCommands
    /\ LET storm_ == get_storm_instance(file)
       IN  \E name \in AddNames, o \in AddOptions :
               Command([NoCall EXCEPT !.op = "add", !.name = name,
                                      !.custom = o],
                       storm_, add(storm_, file, name, uriA, <<>>, o))

CliClone ==
    /\ last.n < MaxCommands
    /\ LET storm_ == get_storm_instance(file)
       IN  \E name \in CloneNames, clone_name \in CloneTargets :
               Command([NoCall EXCEPT !.op = "clone", !.name = name,
                                      !.clone_name = clone_name],
                       storm_, clone(storm_, file, name, clone_name))

CliMove ==
    /\ last.n < MaxCommands
    /\ LET storm_ == get_storm_instance(file)
       IN  \E name \in CloneNames, entry_name \in CloneTargets :
               Command([NoCall EXCEPT !.op = "move", !.name = name,
                                      !.clone_name = entry_name,
                                      !.keep = FALSE],
                       storm_, move(storm_, file, name, entry_name))

CliEdit ==
    /\ last.n < MaxCommands
    /\ LET storm_ == get_storm_instance(file)
       IN  \E name \in EditNames, o \in AddOptions :
               Command([NoCall EXCEPT !.op = "edit",
                                      !.name = SpacesForCommas(name),
                                      !.custom = o],
                       storm_, edit(storm_, file, name, uriA, <<>>, o))

CliUpdate ==
    /\ last.n < MaxCommands
    /\ LET storm_ == get_storm_instance(file)
       IN  \E name \in EditNames, o \in UpdateOptions :
               Command([NoCall EXCEPT !.op = "update", !.name = name,
                                      !.custom = o],
                       storm_, update(storm_, file, name, <<>>, o))

CliDelete ==
    /\ last.n < MaxCommands
    /\ LET storm_ == get_storm_instance(file)
       IN  \E name \in EditNames :
               Command([NoCall EXCEPT !.op = "delete", !.name = name],
                       storm_, delete(storm_, file, name))

NextCli ==
    \/ CliAdd
    \/ CliClone
    \/ CliMove
    \/ CliEdit
    \/ CliUpdate
    \/ CliDelete

SpecCli == InitCli /\ [][NextCli]_vars

(***************************************************************************)
(* Load, write back, load again: a config text is loaded at construction,  *)
(* written back by write_to_ssh_config, and loaded by a new Storm          *)
(***************************************************************************)
lineHost == HostLine(goog)

\* a Host line with space before it, a run of spaces in it and a space after
lineHostSpaced == <<" ">> \o kHost \o <<" ", " ", "g", " ">>

lineIdA ==
    OptLine(<<"I", "d", "e", "n", "t", "i", "t", "y", "F", "i", "l", "e">>,
            <<"/", "a">>)

\* the same directive in lowercase
lineIdB == OptLine(kIdentityfile, <<"/", "b">>)

\* a directive with a run of spaces before its value
linePort == <<" ", "P", "o", "r", "t", " ", " ", "2", "2">>

\* a directive that begins with the word Host
lineHostname == <<"H", "o", "s", "t", "n", "a", "m", "e", " ", "x">>

lineComment == <<" ", "#", " ", "c">>

\* a line of whitespace
lineBlank == <<" ">>

\* a line with one word
lineWord == <<"n", "o", "v", "a", "l">>

ConfigLines ==
    {lineHost, lineHostSpaced, lineIdA, lineIdB, linePort, lineHostname,
     lineComment, lineBlank, lineWord}

Texts == UNION {[1..n -> ConfigLines] : n \in 0..MaxLines}

\* Storm(ssh_config_file) on a config text
InitText ==
    \E text \in Texts :
        /\ file = text
        /\ config_data = load(text)
        /\ defaults = DefaultsOf(load(text))
        /\ last = [NoCall EXCEPT !.op = "load", !.prefile = text]

\* ssh_config.write_to_ssh_config() on the loaded sequence
WriteToSshConfig ==
    /\ last.op = "load"
    /\ file' = write_to_ssh_config(config_data, file)
    /\ UNCHANGED <<config_data, defaults>>
    /\ last' = [NoCall EXCEPT !.op = "write_to_ssh_config",
                              !.pre = config_data, !.prefile = file]

\* a new Storm on the file that was written: pre and prefile stay the
\* sequence of the first load and the text it was loaded from
Reload ==
    /\ last.op = "write_to_ssh_config"
    /\ config_data' = load(file)
    /\ defaults' = DefaultsOf(load(file))
    /\ UNCHANGED file
    /\ last' = [last EXCEPT !.op = "reload"]

NextRoundTrip ==
    \/ WriteToSshConfig
    \/ Reload

SpecRoundTrip == InitText /\ [][NextRoundTrip]_vars

(***************************************************************************)
(* Properties                                                              *)
(***************************************************************************)
\* positions of the HostEntry records
EntriesOf(recs) == {i \in 1..Len(recs) : IsEntry(recs[i])}

HostsOf(recs) == {recs[i].host : i \in EntriesOf(recs)}

\* p is the beginning of h
PrefixOf(p, h) == Len(p) <= Len(h) /\ SubSeq(h, 1, Len(p)) = p

\* what each pattern of Patterns stands for, host by host
Matched(pattern, h) ==
    IF pattern = pWorker
    THEN /\ PrefixOf(worker \o <<"-">>, h)
         /\ Len(h) > Len(worker) + 1
         /\ h[Len(worker) + 2] \in {"1", "2", "3", "4", "5"}
    ELSE IF pattern = pNone THEN h # <<>> /\ h[1] = "z"
    ELSE IF pattern = gBracket THEN FALSE
    ELSE PrefixOf(pattern, h)

\* C1: add_entry raises the already-exists error and leaves the sequence
\* unchanged when some record's host equals the name exactly; otherwise,
\* whatever hosts contain the name or are contained in it, it succeeds and
\* adds exactly one HostEntry, whose host is the name.
C1_AddExactMatch ==
    last.op = "add_entry" =>
        IF \E i \in 1..Len(last.pre) : last.pre[i].host = last.name
        THEN /\ last.outcome = "HostAlreadyExists"
             /\ config_data = last.pre
        ELSE /\ last.outcome = "ok"
             /\ Len(config_data) = Len(last.pre) + 1
             /\ SubSeq(config_data, 1, Len(last.pre)) = last.pre
             /\ IsEntry(config_data[Len(config_data)])
             /\ config_data[Len(config_data)].host = last.name

\* goog is added while google, which contains it, is there
C1_Witness ==
    /\ last.op = "add_entry"
    /\ last.name = goog
    /\ google \in HostsOf(last.pre)
    /\ last.outcome = "ok"
    /\ HostsOf(config_data) = {goog, google}

\* C2: from a loaded sequence with pairwise distinct hosts, no sequence of
\* calls, successful or failed, leaves two HostEntry records with the same
\* host.
C2_UniqueHosts ==
    \A i, j \in EntriesOf(config_data) :
        config_data[i].host = config_data[j].host => i = j

\* a clone has just been added next to its source
C2_Witness ==
    /\ last.op = "clone_entry"
    /\ last.outcome = "ok"
    /\ last.keep
    /\ {last.name, last.clone_name} \subseteq HostsOf(config_data)

\* C3: after a successful add of host x, search_host(s) on the sequence in
\* memory returns the line of the new entry, for every substring s of x.
C3_AddedIsFound ==
    (last.op = "add_entry" /\ last.outcome = "ok") =>
        \A s \in Substrings(last.name) :
            \E i \in 1..Len(search_host(config_data, defaults, s)) :
                search_host(config_data, defaults, s)[i] =
                    FormatResult(config_data[Len(config_data)], defaults)

\* google has just been added after goog: both are found by "oo"
C3_Witness ==
    /\ last.op = "add_entry"
    /\ last.outcome = "ok"
    /\ last.name = google
    /\ Len(search_host(config_data, defaults, <<"o", "o">>)) = 2

\* C4: update_entry sets the given options on every HostEntry whose host the
\* pattern matches from position 0, and changes no other record.
C4_RegexUpdate ==
    (last.op = "update_entry" /\ last.name # gBracket) =>
        /\ Len(config_data) = Len(last.pre)
        /\ \A i \in 1..Len(last.pre) :
             IF IsEntry(last.pre[i]) /\ Matched(last.name, last.pre[i].host)
             THEN /\ config_data[i].host = last.pre[i].host
                  /\ \A k \in 1..Len(last.kwargs) :
                       /\ DictHas(config_data[i].options, last.kwargs[k][1])
                       /\ DictGet(config_data[i].options, last.kwargs[k][1])
                              = last.kwargs[k][2]
             ELSE config_data[i] = last.pre[i]

\* worker-[1-5] over worker, worker-1, worker-2, worker-4, worker3
C4_Witness ==
    /\ last.op = "update_entry"
    /\ last.name = pWorker
    /\ HostsOf(last.pre) = {worker, worker1, worker2, worker4, worker3}
    /\ {last.pre[i].host : i \in {j \in 1..Len(last.pre) :
                                     config_data[j] # last.pre[j]}}
           = {worker1, worker2, worker4}

\* C5: delete_entry, edit_entry and clone_entry of a name no record has, and
\* update_entry of a pattern that no host equals or begins with a match of,
\* fail with the not-found error and leave the sequence and the file as
\* they were.
C5_NotFound ==
    ( \/ /\ last.op \in {"delete_entry", "edit_entry", "clone_entry"}
         /\ \A i \in 1..Len(last.pre) : last.pre[i].host # last.name
      \/ /\ last.op = "update_entry"
         /\ last.name # gBracket
         /\ \A i \in EntriesOf(last.pre) :
              /\ last.pre[i].host # last.name
              /\ ~Matched(last.name, last.pre[i].host) )
    => /\ last.outcome = "HostNotFound"
       /\ config_data = last.pre
       /\ file = last.prefile

\* goog is cloned while only google, which begins with it, is there
C5_Witness ==
    /\ last.op = "clone_entry"
    /\ last.name = goog
    /\ HostsOf(last.pre) = {google}
    /\ last.outcome = "HostNotFound"

\* C6: update_entry of a pattern that does not compile fails with the
\* invalid-pattern error, whatever the sequence holds, and changes nothing.
C6_InvalidPattern ==
    (last.op = "update_entry" /\ last.name = gBracket) =>
        /\ last.outcome = "InvalidPattern"
        /\ config_data = last.pre
        /\ file = last.prefile

Wrapped(path) == <<Quote>> \o path \o <<Quote>>

\* the identity file the call gives, without quotes: the custom option
\* comes after id_file
GivenPath(l) ==
    IF l.custom = customId THEN otherPath
    ELSE IF l.id_file \in {<<>>, DELETED_SIGN} THEN <<>>
    ELSE keyPath

\* the keys and values the call gives
Given(l) ==
    IF l.op = "update_entry" THEN {l.kwargs[k] : k \in 1..Len(l.kwargs)}
    ELSE { <<kHostname, Scalar(hostA)>>, <<kUser, Scalar(userA)>>,
           <<kPort, Scalar(l.port)>> }
         \cup (IF GivenPath(l) # <<>>
               THEN { <<kIdentityfile, Scalar(Wrapped(GivenPath(l)))>> }
               ELSE {})
         \cup (IF l.custom = customSk
               THEN { << <<"s", "k">>, Scalar(<<"n", "o">>) >> }
               ELSE {})

GivenKeys(l) == {kv[1] : kv \in Given(l)}

\* the directives the delete marker of the call names
MarkedDeleted(l) ==
    IF l.op = "edit_entry" /\ l.id_file = DELETED_SIGN
    THEN {kIdentityfile} ELSE {}

\* the keys of the options mapping of the call, the delete marker included
OptionKeys(l) ==
    GivenKeys(l) \cup (IF MarkedDeleted(l) # {} THEN {kDeletedFields} ELSE {})

\* the positions of the entries the call is aimed at
Targets(l) ==
    IF l.op = "update_entry"
    THEN {i \in EntriesOf(l.pre) : Matched(l.name, l.pre[i].host)}
    ELSE IF l.op = "add_entry" THEN {Len(l.pre) + 1}
    ELSE {i \in EntriesOf(l.pre) :
            /\ l.pre[i].host = l.name
            /\ \A j \in EntriesOf(l.pre) : l.pre[j].host = l.name => i <= j}

\* C7: after an edit or an update, each key the options give holds exactly
\* the new value, whatever the old one was (a list included), and each key
\* of the target that the options neither give nor mark as deleted holds its
\* previous value.
C7_MergeSemantics ==
    (last.op \in {"edit_entry", "update_entry"} /\ last.outcome = "ok") =>
        \A i \in Targets(last) :
            /\ \A kv \in Given(last) :
                 /\ DictHas(config_data[i].options, kv[1])
                 /\ DictGet(config_data[i].options, kv[1]) = kv[2]
            /\ \A k \in DictKeys(last.pre[i].options)
                          \ (OptionKeys(last) \cup MarkedDeleted(last)) :
                 /\ DictHas(config_data[i].options, k)
                 /\ DictGet(config_data[i].options, k)
                        = DictGet(last.pre[i].options, k)

\* a list of two identity files is replaced by the one path of the edit,
\* next to a key the edit does not give
C7_Witness ==
    /\ last.op = "edit_entry"
    /\ last.outcome = "ok"
    /\ \E i \in Targets(last) :
         /\ DictHas(last.pre[i].options, kIdentityfile)
         /\ DictGet(last.pre[i].options, kIdentityfile).list
         /\ DictHas(config_data[i].options, kIdentityfile)
         /\ DictGet(config_data[i].options, kIdentityfile)
                = Scalar(Wrapped(keyPath))
         /\ DictKeys(last.pre[i].options) \ OptionKeys(last) # {}

\* C8 as stated: an edit with the DELETED sentinel removes identityfile from
\* the entry, leaves every other key of the entry untouched, and leaves
\* every other record unchanged.
C8_SentinelOnly ==
    (last.op = "edit_entry" /\ last.id_file = DELETED_SIGN
        /\ last.outcome = "ok") =>
        /\ Len(config_data) = Len(last.pre)
        /\ \A i \in 1..Len(last.pre) :
             IF i \in Targets(last)
             THEN /\ ~DictHas(config_data[i].options, kIdentityfile)
                  /\ DictKeys(config_data[i].options)
                         = DictKeys(last.pre[i].options) \ {kIdentityfile}
                  /\ \A k \in DictKeys(config_data[i].options) :
                       DictGet(config_data[i].options, k)
                           = DictGet(last.pre[i].options, k)
             ELSE config_data[i] = last.pre[i]

\* C8: an edit with the DELETED sentinel removes identityfile from the entry
\* unless a custom option of the call sets it, gives hostname, user, port
\* and the custom options of the call their new values, leaves the remaining
\* keys of the entry untouched, and leaves every other record unchanged.
C8_SentinelRemoves ==
    (last.op = "edit_entry" /\ last.id_file = DELETED_SIGN
        /\ last.outcome = "ok") =>
        /\ Len(config_data) = Len(last.pre)
        /\ \A i \in 1..Len(last.pre) :
             IF i \in Targets(last)
             THEN /\ DictHas(config_data[i].options, kIdentityfile)
                         <=> last.custom = customId
                  /\ DictKeys(config_data[i].options)
                         = (DictKeys(last.pre[i].options) \ {kIdentityfile})
                           \cup GivenKeys(last)
                  /\ \A kv \in Given(last) :
                       DictGet(config_data[i].options, kv[1]) = kv[2]
                  /\ \A k \in DictKeys(last.pre[i].options)
                                \ ({kIdentityfile} \cup GivenKeys(last)) :
                       DictGet(config_data[i].options, k)
                           = DictGet(last.pre[i].options, k)
             ELSE config_data[i] = last.pre[i]

\* the identity file goes, a key the edit does not give stays, next to
\* another record
C8_Witness ==
    /\ last.op = "edit_entry"
    /\ last.id_file = DELETED_SIGN
    /\ last.outcome = "ok"
    /\ Len(last.pre) > 1
    /\ \E i \in Targets(last) :
         /\ DictHas(last.pre[i].options, kIdentityfile)
         /\ ~DictHas(config_data[i].options, kIdentityfile)
         /\ DictKeys(last.pre[i].options)
                \ ({kIdentityfile} \cup GivenKeys(last)) # {}

\* C9: add_entry and edit_entry store the identity file they are given,
\* with or without quotes around it, as the path without quotes inside one
\* pair of double quotes; the normalization changes nothing when applied to
\* what it has produced.
C9_QuotingStable ==
    (last.op \in {"add_entry", "edit_entry"} /\ last.outcome = "ok"
        /\ GivenPath(last) # <<>>) =>
        \A i \in Targets(last) :
            /\ DictHas(config_data[i].options, kIdentityfile)
            /\ DictGet(config_data[i].options, kIdentityfile)
                   = Scalar(Wrapped(GivenPath(last)))
            /\ _quote_options(config_data[i].options)
                   = config_data[i].options

\* an edit gives the path, in quotes, that the entry holds already
C9_Witness ==
    /\ last.op = "edit_entry"
    /\ last.outcome = "ok"
    /\ last.custom = <<>>
    /\ last.id_file \in {Wrapped(keyPath), Wrapped(Wrapped(keyPath))}
    /\ \E i \in Targets(last) :
         /\ DictHas(last.pre[i].options, kIdentityfile)
         /\ DictGet(last.pre[i].options, kIdentityfile)
                = Scalar(Wrapped(keyPath))
         /\ DictHas(config_data[i].options, kIdentityfile)
         /\ DictGet(config_data[i].options, kIdentityfile)
                = Scalar(Wrapped(keyPath))

\* the identity file the call gives, as written by the caller
GivenIdentity(l) ==
    IF l.op = "update_entry"
    THEN {kv[2].v[1] : kv \in {x \in Given(l) : x[1] = kIdentityfile}}
    ELSE IF GivenPath(l) # <<>> THEN {GivenPath(l)} ELSE {}

\* C10 as stated: in edit_entry and in update_entry alike, an identity file
\* set by the call is stored inside exactly one pair of double quotes.
C10_BothQuoted ==
    (last.op \in {"edit_entry", "update_entry"} /\ last.outcome = "ok") =>
        \A i \in Targets(last), path \in GivenIdentity(last) :
            /\ DictHas(config_data[i].options, kIdentityfile)
            /\ DictGet(config_data[i].options, kIdentityfile)
                   = Scalar(Wrapped(Strip(path, Quote)))

\* C10: edit_entry stores an identity file it is given inside exactly one
\* pair of double quotes; update_entry stores the values of its options as
\* they are given, without quoting.
C10_EditQuotedUpdateVerbatim ==
    (last.op \in {"edit_entry", "update_entry"} /\ last.outcome = "ok") =>
        \A i \in Targets(last), path \in GivenIdentity(last) :
            /\ DictHas(config_data[i].options, kIdentityfile)
            /\ DictGet(config_data[i].options, kIdentityfile)
                   = IF last.op = "edit_entry"
                     THEN Scalar(Wrapped(Strip(path, Quote)))
                     ELSE Scalar(path)

\* an update has stored an identity file without quotes
C10_Witness ==
    /\ last.op = "update_entry"
    /\ last.outcome = "ok"
    /\ \E i \in Targets(last) :
         /\ GivenIdentity(last) = {keyPath}
         /\ DictHas(config_data[i].options, kIdentityfile)
         /\ DictGet(config_data[i].options, kIdentityfile) = Scalar(keyPath)

\* the types of the records
TypesOf(recs) == {recs[i].type : i \in 1..Len(recs)}

\* C11: delete_all_entries succeeds from every state and leaves a sequence
\* of zero records: HostEntry, Comment and EmptyLine records are all gone.
C11_DeleteAllClears ==
    /\ last.op = "none" =>
         /\ delete_all_entries(config_data, file).outcome = "ok"
         /\ Len(delete_all_entries(config_data, file).data) = 0
    /\ last.op = "delete_all_entries" =>
         /\ last.outcome = "ok"
         /\ Len(config_data) = 0

\* a sequence with records that are not entries has been cleared
C11_Witness ==
    /\ last.op = "delete_all_entries"
    /\ last.outcome = "ok"
    /\ "entry" \in TypesOf(last.pre)
    /\ TypesOf(last.pre) \cap {"comment", "empty_line"} # {}
    /\ config_data = <<>>

\* s occurs in h, from some position i on
HasSub(h, s) ==
    \E i \in 0..Len(h) : \E j \in i..Len(h) : SubSeq(h, i + 1, j) = s

\* the k-th smallest member of a set of positions
Nth(P, k) == CHOOSE x \in P : Cardinality({y \in P : y < x}) = k - 1

\* the records of recs at the positions P, in the order of recs
Picked(recs, P) == [k \in 1..Cardinality(P) |-> recs[Nth(P, k)]]

\* the positions of the entries whose host has s in it
Holding(recs, s) == {i \in EntriesOf(recs) : HasSub(recs[i].host, s)}

\* C12: search_host finds exactly the HostEntry records whose host has the
\* search string in it, whatever the position and in the case given, the
\* string being taken as it is and not as a pattern: the parser returns
\* these records in sequence order and Storm.search_host one line for each.
C12_SearchSubstring ==
    last.op = "search_host" =>
        /\ parser_search_host(last.pre, last.name)
               = Picked(last.pre, Holding(last.pre, last.name))
        /\ Len(last.result) = Cardinality(Holding(last.pre, last.name))
        /\ \A k \in 1..Len(last.result) :
             last.result[k] =
                 FormatResult(last.pre[Nth(Holding(last.pre, last.name), k)],
                              defaults)

\* "oo" is found inside goog and not in another host of the sequence
C12_Witness ==
    /\ last.op = "search_host"
    /\ last.name = <<"o", "o">>
    /\ goog \in HostsOf(last.pre)
    /\ Len(last.result) = 1
    /\ Cardinality(EntriesOf(last.pre)) > 1

\* C13: list_entries, for each value of order and only_servers, and
\* search_host, for each search string, leave the sequence (its records,
\* their order, their options) and the file as they were.
C13_ReadViews ==
    last.op \in {"list_entries", "search_host"} =>
        /\ config_data = last.pre
        /\ file = last.prefile

\* a listing in another order than that of the sequence
C13_Witness ==
    /\ last.op = "list_entries"
    /\ last.order
    /\ Len(last.listed) = Len(last.pre)
    /\ last.listed # last.pre
    /\ config_data = last.pre

\* the positions of the HostEntry records other than `Host *`
Servers(recs) ==
    {i \in 1..Len(recs) : recs[i].type = "entry" /\ recs[i].host # <<"*">>}

\* how many times r is in seq
Count(seq, r) == Cardinality({i \in 1..Len(seq) : seq[i] = r})

\* C14: list_entries with only_servers returns the HostEntry records whose
\* host is not '*', each of them and nothing else; without order they come
\* in sequence order.
C14_OnlyServers ==
    (last.op = "list_entries" /\ last.only_servers) =>
        /\ Len(last.listed) = Cardinality(Servers(last.pre))
        /\ \A i \in Servers(last.pre) :
             Count(last.listed, last.pre[i])
                 = Count(Picked(last.pre, Servers(last.pre)), last.pre[i])
        /\ ~last.order => last.listed = Picked(last.pre, Servers(last.pre))

\* the `Host *` block and a blank line are left out, an entry is kept
C14_Witness ==
    /\ last.op = "list_entries"
    /\ last.only_servers
    /\ ~last.order
    /\ <<"*">> \in HostsOf(last.pre)
    /\ "empty_line" \in TypesOf(last.pre)
    /\ Len(last.listed) = 1
    /\ last.listed[1].host = goog

\* what list_entries returns without order
Unordered(l) ==
    IF l.only_servers THEN Picked(l.pre, Servers(l.pre)) ELSE l.pre

\* C15: list_entries with order returns the records it returns without
\* order, each as many times, with the hosts in ascending order.
C15_Ordered ==
    (last.op = "list_entries" /\ last.order) =>
        /\ Len(last.listed) = Len(Unordered(last))
        /\ \A i \in 1..Len(Unordered(last)) :
             Count(last.listed, Unordered(last)[i])
                 = Count(Unordered(last), Unordered(last)[i])
        /\ \A i, j \in 1..Len(last.listed) :
             i < j => ~StrLess(last.listed[j].host, last.listed[i].host)

\* worker-1, worker-2, worker-4, worker3, worker come out with worker first
C15_Witness ==
    /\ last.op = "list_entries"
    /\ last.order
    /\ Len(last.listed) = 5
    /\ last.pre[1].host = worker1
    /\ last.listed[1].host = worker
    /\ last.listed[5].host = worker3

\* C16: a successful clone_entry with keep_original adds one HostEntry, at
\* the end, whose host is clone_name and whose options are those of the
\* entry called name, and leaves the records that were there as they were.
C16_CloneCopies ==
    (last.op = "clone_entry" /\ last.outcome = "ok" /\ last.keep) =>
        /\ Len(config_data) = Len(last.pre) + 1
        /\ SubSeq(config_data, 1, Len(last.pre)) = last.pre
        /\ IsEntry(config_data[Len(config_data)])
        /\ config_data[Len(config_data)].host = last.clone_name
        /\ Targets(last) # {}
        /\ \A i \in Targets(last) :
             config_data[Len(config_data)].options = last.pre[i].options

\* the clone of an entry that has an identity file
C16_Witness ==
    /\ last.op = "clone_entry"
    /\ last.outcome = "ok"
    /\ last.keep
    /\ \E i \in Targets(last) : DictHas(last.pre[i].options, kIdentityfile)
    /\ DictHas(config_data[Len(config_data)].options, kIdentityfile)

\* C17: clone_entry of a name that some record has fails with the
\* already-exists error and leaves the sequence and the file unchanged when
\* clone_name equals name or some record has the host clone_name; so the
\* same clone asked for a second time fails.
C17_CloneTargetTaken ==
    ( /\ last.op = "clone_entry"
      /\ \E i \in 1..Len(last.pre) : last.pre[i].host = last.name
      /\ \/ last.clone_name = last.name
         \/ \E i \in 1..Len(last.pre) : last.pre[i].host = last.clone_name )
    => /\ last.outcome = "HostAlreadyExists"
       /\ config_data = last.pre
       /\ file = last.prefile

\* google is there already, next to goog, when goog is cloned to google
C17_Witness ==
    /\ last.op = "clone_entry"
    /\ last.name = goog
    /\ last.clone_name = google
    /\ {goog, google} \subseteq HostsOf(last.pre)
    /\ last.outcome = "HostAlreadyExists"

\* the positions of the entries called h
Named(recs, h) == {i \in EntriesOf(recs) : recs[i].host = h}

\* C18 as stated: after a successful move no HostEntry has the host name,
\* exactly one has the host clone_name, with the options the source had,
\* and the number of HostEntry records is what it was.
C18_MoveLeavesNone ==
    (last.op = "clone_entry" /\ last.outcome = "ok" /\ ~last.keep) =>
        /\ Named(config_data, last.name) = {}
        /\ Cardinality(Named(config_data, last.clone_name)) = 1
        /\ \A i \in Targets(last), j \in Named(config_data, last.clone_name) :
             config_data[j].options = last.pre[i].options
        /\ Cardinality(EntriesOf(config_data))
               = Cardinality(EntriesOf(last.pre))

\* C18: a successful move takes away the first HostEntry whose host is
\* name, so that one entry fewer has that host (none when the name had a
\* single entry); exactly one HostEntry has the host clone_name, with the
\* options the source had; the number of HostEntry records is what it was.
C18_MoveTakesFirst ==
    (last.op = "clone_entry" /\ last.outcome = "ok" /\ ~last.keep) =>
        /\ Cardinality(Named(config_data, last.name))
               = Cardinality(Named(last.pre, last.name)) - 1
        /\ \A i \in Targets(last) :
             SubSeq(config_data, 1, Len(config_data) - 1)
                 = SubSeq(last.pre, 1, i - 1)
                   \o SubSeq(last.pre, i + 1, Len(last.pre))
        /\ Cardinality(Named(config_data, last.clone_name)) = 1
        /\ \A i \in Targets(last), j \in Named(config_data, last.clone_name) :
             config_data[j].options = last.pre[i].options
        /\ Cardinality(EntriesOf(config_data))
               = Cardinality(EntriesOf(last.pre))

\* the first of two blocks of one host has been moved, the second is there
C18_Witness ==
    /\ last.op = "clone_entry"
    /\ last.outcome = "ok"
    /\ ~last.keep
    /\ Cardinality(Named(last.pre, last.name)) = 2
    /\ Cardinality(Named(config_data, last.name)) = 1
    /\ Cardinality(Named(config_data, last.clone_name)) = 1

\* C19: for every config text, the sequence loaded from the text that
\* write_to_ssh_config makes of the loaded sequence is the sequence of the
\* first load: same records, same order, same option keys and values, each
\* value a string or a list as before.
C19_RoundTrip ==
    last.op = "reload" => config_data = last.pre

\* a text with a comment and a repeated directive, which is written back
\* in another spelling, loads again as it did
C19_Witness ==
    /\ last.op = "reload"
    /\ file # last.prefile
    /\ TypesOf(config_data) = {"entry", "comment"}
    /\ \E i \in EntriesOf(config_data) :
         /\ DictHas(config_data[i].options, kIdentityfile)
         /\ DictGet(config_data[i].options, kIdentityfile).list

\* what a line of ConfigLines is
LineKind(line) ==
    IF line \in {lineHost, lineHostSpaced} THEN "host"
    ELSE IF line = lineComment THEN "comment"
    ELSE IF line = lineBlank THEN "blank"
    ELSE IF line = lineWord THEN "word"
    ELSE "directive"

\* the directive of a line of ConfigLines, in lowercase, and its value
LineKey(line) ==
    IF line \in {lineIdA, lineIdB} THEN kIdentityfile
    ELSE IF line = linePort THEN kPort
    ELSE kHostname

LineValue(line) ==
    IF line = lineIdA THEN <<"/", "a">>
    ELSE IF line = lineIdB THEN <<"/", "b">>
    ELSE IF line = linePort THEN <<"2", "2">>
    ELSE <<"x">>

\* the positions of the lines of directive k under the Host line at i: up
\* to the next Host line, comment or blank line
BlockOf(text, i, k) ==
    {j \in (i + 1)..Len(text) :
        /\ LineKind(text[j]) = "directive"
        /\ LineKey(text[j]) = k
        /\ \A m \in (i + 1)..j :
             LineKind(text[m]) \notin {"host", "comment", "blank"}}

\* the values of directive k under the Host line at i, in file order
ValuesOf(text, i, k) ==
    [n \in 1..Cardinality(BlockOf(text, i, k)) |->
        LineValue(text[Nth(BlockOf(text, i, k), n)])]

\* the position of the record of the Host line at i
RecordOf(text, i) ==
    Cardinality({j \in 1..i :
                    LineKind(text[j]) \in {"host", "comment", "blank"}})

\* how many lines the records before position p take when written
RECURSIVE LinesBefore(_, _)
LinesBefore(recs, p) ==
    IF p <= 1 THEN 0
    ELSE LinesBefore(recs, p - 1) + 1
         + (IF IsEntry(recs[p - 1])
            THEN Cardinality({ab \in
                     (1..Len(recs[p - 1].options)) \X (1..(MaxLines + 1)) :
                         ab[2] <= Len(recs[p - 1].options[ab[1]][2].v)})
            ELSE 0)

\* the lines of the written text that belong to the record at p
WrittenFor(text, recs, p) ==
    SubSeq(text, LinesBefore(recs, p) + 1, LinesBefore(recs, p + 1))

\* C20: a directive that stands n >= 2 times under one Host block loads as
\* the list of its n values in file order (and as a string when it stands
\* once); written back, a list of n values is n lines of the directive, one
\* for each value, in the order of the list.
C20_ListFidelity ==
    /\ last.op = "load" =>
         \A i \in 1..Len(file), k \in {kIdentityfile, kPort, kHostname} :
             LineKind(file[i]) = "host" =>
                 LET vs == ValuesOf(file, i, k)
                     options == config_data[RecordOf(file, i)].options
                 IN  /\ Len(vs) = 0 => ~DictHas(options, k)
                     /\ Len(vs) = 1 =>
                            /\ DictHas(options, k)
                            /\ DictGet(options, k) = Scalar(vs[1])
                     /\ Len(vs) >= 2 =>
                            /\ DictHas(options, k)
                            /\ DictGet(options, k) = List(vs)
    /\ last.op = "write_to_ssh_config" =>
         \A p \in EntriesOf(config_data) :
             \A a \in 1..Len(config_data[p].options) :
                 LET k == config_data[p].options[a][1]
                     val == config_data[p].options[a][2]
                 IN  val.list =>
                         SelectSeq(WrittenFor(file, config_data, p),
                                   LAMBDA line :
                                       PrefixOf(Indent \o k \o <<" ">>, line))
                             = [n \in 1..Len(val.v) |->
                                   Indent \o k \o <<" ">> \o val.v[n]]

\* IdentityFile /a, identityfile /b, IdentityFile /a under one Host line:
\* a list of three, written back as three lines
C20_Witness ==
    /\ last.op = "write_to_ssh_config"
    /\ last.prefile = <<lineHost, lineIdA, lineIdB, lineIdA>>
    /\ Len(config_data) = 1
    /\ DictHas(config_data[1].options, kIdentityfile)
    /\ DictGet(config_data[1].options, kIdentityfile)
           = List(<< <<"/", "a">>, <<"/", "b">>, <<"/", "a">> >>)
    /\ Len(file) = 4
    /\ file[2] = OptLine(kIdentityfile, <<"/", "a">>)
    /\ file[3] = OptLine(kIdentityfile, <<"/", "b">>)
    /\ file[4] = OptLine(kIdentityfile, <<"/", "a">>)

\* the operations of Storm that end with write_to_ssh_config
Writers ==
    {"add_entry", "clone_entry", "edit_entry", "update_entry", "delete_entry"}

\* C21: dump of a sequence with no records is absent, and the write-back of
\* such a sequence writes nothing: the file holds afterwards what it held
\* before, it is neither cut to nothing nor replaced by an empty text.
C21_EmptyDumpNoWrite ==
    (/\ last.op \in Writers
     /\ last.outcome = "ok"
     /\ Len(config_data) = 0) =>
        /\ dump(config_data).absent
        /\ file = last.prefile

\* delete_entry of the one record of a file that holds a Host block
C21_Witness ==
    /\ last.op = "delete_entry"
    /\ last.outcome = "ok"
    /\ Len(last.pre) = 1
    /\ config_data = <<>>
    /\ file = last.prefile
    /\ \E i \in 1..Len(file) : PrefixOf(kHost, file[i])

\* C25: a successful delete_entry(name) removes one record, the first
\* HostEntry in sequence order whose host is name; the later entries of that
\* host, the hosts that contain name, the comments and the blank lines all
\* stay, in the order they had.
C25_DeleteFirstOnly ==
    (last.op = "delete_entry" /\ last.outcome = "ok") =>
        \E at \in Named(last.pre, last.name) :
            /\ \A j \in Named(last.pre, last.name) : at <= j
            /\ Len(config_data) = Len(last.pre) - 1
            /\ \A i \in 1..Len(config_data) :
                 config_data[i] = IF i < at THEN last.pre[i]
                                  ELSE last.pre[i + 1]

\* delete_entry of a host that two Host blocks of the file have
C25_Witness ==
    /\ last.op = "delete_entry"
    /\ last.outcome = "ok"
    /\ Cardinality(Named(last.pre, last.name)) = 2
    /\ Cardinality(Named(config_data, last.name)) = 1

\* the largest index of a sequence, 0 when it has no records
LargestIndex(recs) ==
    IF Len(recs) = 0 THEN 0
    ELSE CHOOSE m \in {recs[i].index : i \in 1..Len(recs)} :
             \A i \in 1..Len(recs) : recs[i].index <= m

Unquoted(val) == {Strip(val.v[n], Quote) : n \in 1..Len(val.v)}

\* C27 as stated: no HostEntry has the key deleted_fields or an identityfile
\* that is the DELETED sentinel, and no line of the file names
\* deleted_fields.
C27_MarkerNeverData ==
    /\ \A i \in EntriesOf(config_data) :
         /\ ~DictHas(config_data[i].options, kDeletedFields)
         /\ DictHas(config_data[i].options, kIdentityfile) =>
              DELETED_SIGN
                  \notin Unquoted(DictGet(config_data[i].options,
                                          kIdentityfile))
    /\ \A n \in 1..Len(file) : ~Contains(file[n], kDeletedFields)

\* the hosts and the options of the HostEntry records, in sequence order
HostView(recs) ==
    LET entries == SelectSeq(recs, IsEntry)
    IN  [i \in 1..Len(entries) |-> <<entries[i].host, entries[i].options>>]

\* C28 as stated: after every successful mutating operation of Storm, the
\* file loads as the hosts and the options of the sequence in memory.
C28_PersistenceConsistent ==
    (/\ last.op \in Writers \cup {"delete_all_entries"}
     /\ last.outcome = "ok") =>
        HostView(load(file)) = HostView(config_data)

\* the option keys of the HostEntry records
KeysOf(recs) ==
    UNION {DictKeys(recs[i].options) : i \in EntriesOf(recs)}

\* C22 as stated: whatever commands have run, with --o Key=Value options or
\* without, every option key of every HostEntry is lowercase.
C22_KeysLowercase ==
    \A k \in KeysOf(config_data) : k = Lower(k)

\* C24: an edit changes the options of at most one HostEntry, one whose host
\* is the given name, letter for letter, also when several Host blocks have
\* that host and when the name is a pattern; every other record is as it
\* was, and the edit fails without a change when no entry has the name.
C24_ExactEditOne ==
    last.op = "edit" =>
        IF last.outcome = "ok"
        THEN \E at \in Named(last.pre, last.name) :
                 /\ Len(config_data) = Len(last.pre)
                 /\ \A i \in 1..Len(last.pre) :
                      IF i = at
                      THEN config_data[i] =
                               [last.pre[i] EXCEPT
                                  !.options = config_data[i].options]
                      ELSE config_data[i] = last.pre[i]
        ELSE /\ config_data = last.pre
             /\ Named(last.pre, last.name) = {}

\* edit of the name g. on a file with two blocks of Host g.: the name is a
\* pattern that matches both hosts, and one entry is changed
C24_Witness ==
    /\ last.op = "edit"
    /\ last.outcome = "ok"
    /\ last.name = gDot
    /\ Cardinality(Named(last.pre, last.name)) = 2
    /\ \A i \in Named(last.pre, last.name) : ReMatch(last.name, last.pre[i].host)
    /\ config_data[1].options # last.pre[1].options
    /\ config_data[2] = last.pre[2]

\* C30 as stated: no HostEntry has a host with '@' in it, and an add with
\* '@' in the name ends with an error on stderr and an exit code that is
\* not 0, the sequence and the file as they were.
C30_NoAtHost ==
    /\ \A i \in EntriesOf(config_data) :
         ~Contains(config_data[i].host, <<"@">>)
    /\ \A i \in EntriesOf(load(file)) :
         ~Contains(load(file)[i].host, <<"@">>)
    /\ (last.op = "add" /\ Contains(last.name, <<"@">>)) =>
         /\ last.stderr
         /\ last.rc # 0
         /\ config_data = last.pre
         /\ file = last.prefile

====
